---- MODULE Spec2Model ----
(***************************************************************************)
(* Model of the /api/analyze route of the bank statement analyzer and of   *)
(* the upload form that calls it (variable `ui').  Two                      *)
(* revisions of the route exist in the repository: the text-extraction     *)
(* route (src/src/app/api/analyze/route.ts) and the native-PDF route       *)
(* (src/unnamed/part_001).  The variable `version' says which one runs.    *)
(*                                                                         *)
(* Money is counted in thousandths of a currency unit, so that the         *)
(* tolerance 0.01 of the code is the integer 10 and 0.009 / 0.011 are 9    *)
(* and 11.  IEEE-754 rounding of the subtraction is not modelled.          *)
(***************************************************************************)
EXTENDS Integers, Sequences, FiniteSets, TLC

VARIABLES version, pc, req, disk, textContent, oracleCalls, oracleOut, response,
          conc, ui

vars == <<version, pc, req, disk, textContent, oracleCalls, oracleOut, response,
          conc, ui>>

(***************************************************************************)
(* Bounds of the model.                                                    *)
(***************************************************************************)
MaxTxns == 2

\* Number of requests the server handles at the same time.
MaxRequests == 2

(***************************************************************************)
(* JavaScript values.  k is the kind, n the numeric payload (thousandths), *)
(* s the string payload, a sequence of words.                              *)
(***************************************************************************)
Num(x) == [k |-> "number", n |-> x, s |-> <<>>]
NaN == [k |-> "NaN", n |-> 0, s |-> <<>>]
Undefined == [k |-> "undefined", n |-> 0, s |-> <<>>]
Null == [k |-> "null", n |-> 0, s |-> <<>>]
Str(w) == [k |-> "string", n |-> 0, s |-> w]

\* ToNumber of the ECMAScript abstract operations, for the kinds the
\* reconciliation arithmetic meets: null is 0, undefined is NaN.
ToNumber(v) ==
  CASE v.k = "number" -> v
    [] v.k = "null" -> Num(0)
    [] OTHER -> NaN

\* The binary + of two values that are numbers, null or undefined.
JsAdd(a, b) ==
  LET x == ToNumber(a)
      y == ToNumber(b)
  IN IF x.k = "NaN" \/ y.k = "NaN" THEN NaN ELSE Num(x.n + y.n)

\* The binary - .
JsSub(a, b) ==
  LET x == ToNumber(a)
      y == ToNumber(b)
  IN IF x.k = "NaN" \/ y.k = "NaN" THEN NaN ELSE Num(x.n - y.n)

\* Math.abs
MathAbs(v) ==
  LET x == ToNumber(v)
  IN IF x.k = "NaN" THEN NaN ELSE Num(IF x.n < 0 THEN 0 - x.n ELSE x.n)

\* a < b on numbers: false as soon as one side is NaN.
JsLess(a, b) ==
  LET x == ToNumber(a)
      y == ToNumber(b)
  IN x.k = "number" /\ y.k = "number" /\ x.n < y.n

\* ToBoolean, as used by `!results.currency'.
Truthy(v) ==
  CASE v.k = "undefined" -> FALSE
    [] v.k = "null" -> FALSE
    [] v.k = "NaN" -> FALSE
    [] v.k = "number" -> v.n # 0
    [] OTHER -> Len(v.s) > 0

\* String.prototype.includes, on strings kept as sequences of words.
Includes(msg, phrase) ==
  \E i \in 1..(Len(msg) + 1) :
    /\ i + Len(phrase) - 1 <= Len(msg)
    /\ \A j \in 1..Len(phrase) : msg[i + j - 1] = phrase[j]

\* JSON.stringify of a property value: NaN is written as null; a property
\* whose value is undefined is left out (it stays Undefined here, which
\* stands for the absent key).
JsonValue(v) == IF v.k = "NaN" THEN Null ELSE v

(***************************************************************************)
(* Program constants.                                                      *)
(***************************************************************************)
\* const maxSize = 10 * 1024 * 1024
maxSize == 10 * 1024 * 1024

\* Math.abs(discrepancy) < 0.01, in thousandths
Tolerance == 10

PdfType == "application/pdf"

AppearsToBe == <<"appears", "to", "be">>

GenericError == <<"An", "error", "occurred", "while", "analyzing", "the", "file">>
NoFileError == <<"No", "file", "provided">>
OnlyPdfError == <<"Only", "PDF", "files", "are", "accepted">>
FileSizeError == <<"File", "size", "should", "not", "exceed", "10MB">>
NoFileIdError == <<"No", "fileId", "provided">>
InvalidContentTypeError == <<"Invalid", "content", "type.", "Expected", "multipart/form-data">>
NoTextContentError == <<"No", "text", "content", "could", "be", "extracted", "from", "PDF">>
NoTextResponseError == <<"Failed", "to", "get", "text", "response", "from", "AI">>
NoJsonError == <<"Failed", "to", "extract", "JSON", "from", "AI", "response">>

(***************************************************************************)
(* Shapes of the data exchanged with the oracle.                           *)
(***************************************************************************)
\* interface Transaction
Transaction(date, description, amount, type, balance) ==
  [date |-> date, description |-> description, amount |-> amount,
   type |-> type, balance |-> balance]

\* BankStatement.reconciliation; k = "undefined" when the object is absent.
ReconciliationObject(calculatedBalance, isReconciled, discrepancy) ==
  [k |-> "object", calculatedBalance |-> calculatedBalance,
   isReconciled |-> isReconciled, discrepancy |-> discrepancy]

NoReconciliation ==
  [k |-> "undefined", calculatedBalance |-> Undefined,
   isReconciled |-> FALSE, discrepancy |-> Undefined]

\* The transactions property: an array, or absent / null.
TxArray(items) == [k |-> "array", items |-> items]
TxMissing(kind) == [k |-> kind, items |-> <<>>]

\* interface BankStatement (accountHolder and documentDate are carried
\* through untouched and are left out), together with the `error' key of
\* interface ErrorResponse: type AIResponse = ErrorResponse | BankStatement.
AIResponse(error, currency, startingBalance, endingBalance, transactions, reconciliation) ==
  [error |-> error, currency |-> currency, startingBalance |-> startingBalance,
   endingBalance |-> endingBalance, transactions |-> transactions,
   reconciliation |-> reconciliation]

EmptyStatement ==
  AIResponse(Undefined, Undefined, Undefined, Undefined, TxMissing("undefined"), NoReconciliation)

\* export function isErrorResponse(response): 'error' in response
isErrorResponse(parsed) == parsed.error.k # "undefined"

(***************************************************************************)
(* processWithAI, after the oracle has answered.                           *)
(***************************************************************************)
\* Variant: the default is applied only when the property is absent.
ApplyCurrencyDefault_OnlyAbsent(results) ==
  IF results.currency.k = "undefined"
  THEN [results EXCEPT !.currency = Str(<<"USD">>)]
  ELSE results

\* if (!results.currency) { results.currency = 'USD' }
ApplyCurrencyDefault(results) ==
  IF ~Truthy(results.currency)
  THEN [results EXCEPT !.currency = Str(<<"USD">>)]
  ELSE results

\* Variant: the amount is copied as it is.
NormalizeTransaction_NoAbs(transaction) == transaction

\* Variant: the amount is negated instead of made positive.
NormalizeTransaction_Negate(transaction) ==
  [transaction EXCEPT !.amount = JsSub(Num(0), transaction.amount)]

\* (transaction) => ({ ...transaction, amount: Math.abs(transaction.amount) })
NormalizeTransaction(transaction) ==
  [transaction EXCEPT !.amount = MathAbs(transaction.amount)]

\* results.transactions.map(...)
NormalizeTransactions(items) ==
  [i \in 1..Len(items) |-> NormalizeTransaction(items[i])]

\* Variant: debits are added like credits.
NetChangeStep_DebitAdds(sum, transaction) ==
  IF transaction.type = Str(<<"credit">>)
  THEN JsAdd(sum, transaction.amount)
  ELSE IF transaction.type = Str(<<"debit">>)
       THEN JsAdd(sum, transaction.amount)
       ELSE sum

\* Variant: every type other than "credit" is taken for a debit.
NetChangeStep_UnknownAsDebit(sum, transaction) ==
  IF transaction.type = Str(<<"credit">>)
  THEN JsAdd(sum, transaction.amount)
  ELSE JsSub(sum, transaction.amount)

\* The callback of reduce: one step of the net-change fold.
NetChangeStep(sum, transaction) ==
  IF transaction.type = Str(<<"credit">>)
  THEN JsAdd(sum, transaction.amount)
  ELSE IF transaction.type = Str(<<"debit">>)
       THEN JsSub(sum, transaction.amount)
       ELSE sum

\* normalizedTransactions.reduce(callback, 0): a left fold.
RECURSIVE Reduce(_, _, _)
Reduce(items, i, sum) ==
  IF i > Len(items) THEN sum
  ELSE Reduce(items, i + 1, NetChangeStep(sum, items[i]))

NetChange(items) == Reduce(items, 1, Num(0))

\* Variant: the comparison is <= instead of < .
IsReconciled_Inclusive(discrepancy) == JsLess(MathAbs(discrepancy), Num(Tolerance + 1))

\* const isReconciled = Math.abs(discrepancy) < 0.01
IsReconciled(discrepancy) == JsLess(MathAbs(discrepancy), Num(Tolerance))

\* Variant: a reconciled result reports a discrepancy of zero.
ReportedDiscrepancy_Zero(isReconciled, discrepancy) ==
  IF isReconciled THEN Num(0) ELSE discrepancy

\* discrepancy: isReconciled ? undefined : discrepancy
ReportedDiscrepancy(isReconciled, discrepancy) ==
  IF isReconciled THEN Undefined ELSE discrepancy

\* calculatedEndingBalance, discrepancy, isReconciled and the
\* reconciliation object built from them.
Reconcile(startingBalance, normalizedTransactions, endingBalance) ==
  LET netChange == NetChange(normalizedTransactions)
      calculatedEndingBalance == JsAdd(startingBalance, netChange)
      discrepancy == JsSub(endingBalance, calculatedEndingBalance)
      isReconciled == IsReconciled(discrepancy)
  IN ReconciliationObject(calculatedEndingBalance, isReconciled,
                          ReportedDiscrepancy(isReconciled, discrepancy))

\* What processWithAI returns or throws.
Returned(results) == [ok |-> TRUE, message |-> <<>>, results |-> results]
Thrown(message) == [ok |-> FALSE, message |-> message, results |-> EmptyStatement]

TypeErrorMap == <<"Cannot", "read", "properties", "of", "undefined", "(reading", "'map')">>

\* Variant: the reconciliation is computed from the oracle's raw amounts.
ProcessStatement_RawAmounts(parsed) ==
  LET results == ApplyCurrencyDefault(parsed)
  IN IF results.transactions.k # "array"
     THEN Thrown(TypeErrorMap)
     ELSE LET normalizedTransactions == NormalizeTransactions(results.transactions.items)
          IN Returned([results EXCEPT
                 !.transactions = TxArray(normalizedTransactions),
                 !.reconciliation = Reconcile(results.startingBalance,
                                              results.transactions.items,
                                              results.endingBalance)])

\* Variant: a reconciliation object supplied by the oracle is kept.
ProcessStatement_KeepsOracleReconciliation(parsed) ==
  LET results == ApplyCurrencyDefault(parsed)
  IN IF results.transactions.k # "array"
     THEN Thrown(TypeErrorMap)
     ELSE LET normalizedTransactions == NormalizeTransactions(results.transactions.items)
          IN Returned([results EXCEPT
                 !.transactions = TxArray(normalizedTransactions),
                 !.reconciliation =
                    IF results.reconciliation.k = "object"
                    THEN results.reconciliation
                    ELSE Reconcile(results.startingBalance,
                                   normalizedTransactions,
                                   results.endingBalance)])

\* The statements of processWithAI from the currency default to `return
\* results'; reading .map of a transactions property that is not an array
\* throws a TypeError.
ProcessStatement(parsed) ==
  LET results == ApplyCurrencyDefault(parsed)
  IN IF results.transactions.k # "array"
     THEN Thrown(TypeErrorMap)
     ELSE LET normalizedTransactions == NormalizeTransactions(results.transactions.items)
          IN Returned([results EXCEPT
                 !.transactions = TxArray(normalizedTransactions),
                 !.reconciliation = Reconcile(results.startingBalance,
                                              normalizedTransactions,
                                              results.endingBalance)])

\* Variant: the native route hands the oracle's transactions on as they are.
processWithAI_NativeKeepsRawAmounts(v, out) ==
  CASE out.kind = "throws" -> Thrown(out.message)
    [] out.kind = "noText" -> Thrown(NoTextResponseError)
    [] out.kind = "noJson" -> Thrown(NoJsonError)
    [] out.kind = "badJson" -> Thrown(out.message)
    [] OTHER ->
         IF v = "native" /\ isErrorResponse(out.parsed)
         THEN Thrown(out.parsed.error.s)
         ELSE IF v = "native" /\ out.parsed.transactions.k = "array"
         THEN Returned([ProcessStatement(out.parsed).results EXCEPT
                          !.transactions = out.parsed.transactions])
         ELSE ProcessStatement(out.parsed)

\* processWithAI of the given route version, from the settled oracle call
\* on.  out.kind is how the call settled: "throws" (the SDK call rejected),
\* "noText" (no first content block of type text), "noJson" (the regex
\* found no {...}), "badJson" (JSON.parse threw) or "json".  The catch
\* block rethrows every failure as new Error(message).
processWithAI(v, out) ==
  CASE out.kind = "throws" -> Thrown(out.message)
    [] out.kind = "noText" -> Thrown(NoTextResponseError)
    [] out.kind = "noJson" -> Thrown(NoJsonError)
    [] out.kind = "badJson" -> Thrown(out.message)
    [] OTHER ->
         IF v = "native" /\ isErrorResponse(out.parsed)
         THEN Thrown(out.parsed.error.s)
         ELSE ProcessStatement(out.parsed)

(***************************************************************************)
(* The POST handler.                                                       *)
(***************************************************************************)
\* NextResponse.json(body, { status }); error is Undefined in a success
\* body and body is EmptyStatement in an error body.
JsonResponse(status, error, body) == [status |-> status, error |-> error, body |-> body]

ErrorResponse(status, message) == JsonResponse(status, Str(message), EmptyStatement)

NoResponse == JsonResponse(0, Undefined, EmptyStatement)

\* JSON.stringify of a transaction of the result.
SerializeTransaction(t) ==
  [t EXCEPT !.amount = JsonValue(t.amount), !.balance = JsonValue(t.balance)]

\* JSON.stringify of the BankStatement handed to NextResponse.json.
Serialize(results) ==
  [results EXCEPT
     !.startingBalance = JsonValue(results.startingBalance),
     !.endingBalance = JsonValue(results.endingBalance),
     !.transactions = TxArray([i \in 1..Len(results.transactions.items) |->
                                 SerializeTransaction(results.transactions.items[i])]),
     !.reconciliation = [results.reconciliation EXCEPT
                           !.calculatedBalance = JsonValue(results.reconciliation.calculatedBalance),
                           !.discrepancy = JsonValue(results.reconciliation.discrepancy)]]

\* Variant: the type of the file is not checked.
ValidateFile_NoTypeCheck(file) ==
  IF ~file.present THEN NoFileError
  ELSE IF file.size > maxSize THEN FileSizeError
  ELSE <<>>

\* Variant: a file of exactly maxSize bytes is refused.
ValidateFile_ExclusiveLimit(file) ==
  IF ~file.present THEN NoFileError
  ELSE IF file.type # PdfType THEN OnlyPdfError
  ELSE IF file.size >= maxSize THEN FileSizeError
  ELSE <<>>

\* The three checks on the uploaded file, in the order of the code; the
\* result is the error message, or <<>> when the file passes.
ValidateFile(file) ==
  IF ~file.present THEN NoFileError
  ELSE IF file.type # PdfType THEN OnlyPdfError
  ELSE IF file.size > maxSize THEN FileSizeError
  ELSE <<>>

\* Variant: the exception is not caught and no response is built.
CatchResponse_Rethrows(v, message) == NoResponse

\* Variant: every caught error is passed through as a 400.
CatchResponse_PassesEveryMessage(v, message) == ErrorResponse(400, message)

\* The catch block of POST.
CatchResponse(v, message) ==
  IF v = "native" /\ Includes(message, AppearsToBe)
  THEN ErrorResponse(400, message)
  ELSE ErrorResponse(500, GenericError)

\* `const results = await processWithAI(...); return NextResponse.json(results)'
\* and the catch block around it.
PostResponse(v, out) ==
  LET r == processWithAI(v, out)
  IN IF r.ok THEN JsonResponse(200, Undefined, Serialize(r.results))
     ELSE CatchResponse(v, r.message)

\* The same from the point where the promise of processWithAI has settled
\* with r: POST resumes after its await.
PostResume(v, r) ==
  IF r.ok THEN JsonResponse(200, Undefined, Serialize(r.results))
  ELSE CatchResponse(v, r.message)

(***************************************************************************)
(* Inputs.                                                                 *)
(***************************************************************************)
Versions == {"text", "native"}

FileIds == {"f1"}

NoFile == [present |-> FALSE, type |-> "", size |-> 0]
File(type, size) == [present |-> TRUE, type |-> type, size |-> size]

Request(contentType, bodyOk, file, fileId) ==
  [contentType |-> contentType, bodyOk |-> bodyOk, file |-> file, fileId |-> fileId]

NoRequest == Request("", FALSE, NoFile, "")

Requests ==
  {Request("multipart/form-data", FALSE, NoFile, ""),
   Request("multipart/form-data", TRUE, NoFile, "")}
  \cup {Request("multipart/form-data", TRUE, File(t, z), "") :
          t \in {PdfType, "text/plain"}, z \in {maxSize, maxSize + 1}}
  \cup {Request("application/json", FALSE, NoFile, "")}
  \cup {Request("application/json", TRUE, NoFile, id) : id \in {"", "f1", "f2"}}

SampleTransactions ==
  {Transaction(Str(<<"01", "Jan">>), Str(<<"ATM">>), Num(-200000), Str(<<"debit">>), Undefined),
   Transaction(Str(<<"02", "Jan">>), Str(<<"Salary">>), Num(300000), Str(<<"credit">>), Num(1100000)),
   Transaction(Str(<<"03", "Jan">>), Str(<<"Refund">>), Num(-300000), Str(<<"credit">>), Undefined),
   Transaction(Str(<<"04", "Jan">>), Str(<<"Salary">>), Num(500000), Str(<<"credit">>), Num(1500000)),
   Transaction(Str(<<"05", "Jan">>), Str(<<"Rent">>), Num(200000), Str(<<"debit">>), Num(800000)),
   Transaction(Str(<<"07", "Jan">>), Str(<<"Move">>), Num(-200000), Str(<<"transfer">>), Num(1000000)),
   Transaction(Str(<<"08", "Jan">>), Str(<<"Fee">>), Num(-1), Str(<<"debit">>), Undefined)}

RECURSIVE SeqsUpTo(_, _)
SeqsUpTo(S, n) ==
  IF n = 0 THEN {<<>>}
  ELSE LET shorter == SeqsUpTo(S, n - 1)
       IN shorter \cup {Append(q, x) : q \in {r \in shorter : Len(r) = n - 1}, x \in S}

SampleCurrencies == {Undefined, Str(<<>>), Str(<<"EUR">>)}
SampleStartingBalances == {Num(0), Num(1000000), Undefined, Null}
SampleEndingBalances ==
  {Num(-10), Num(9), Num(10), Num(1000009), Num(1100000), Undefined}
SampleReconciliations == {NoReconciliation, ReconciliationObject(Num(42), TRUE, Num(7))}
SampleTransactionLists ==
  {TxArray(q) : q \in SeqsUpTo(SampleTransactions, MaxTxns)} \cup {TxMissing("undefined")}

NotAStatementMessage ==
  <<"This", "appears", "to", "be", "a", "receipt", "rather", "than", "a", "bank", "statement.">>
OtherErrorMessage == <<"This", "document", "is", "not", "a", "bank", "statement.">>

\* The message of the SyntaxError of JSON.parse is engine-defined: older V8
\* names the token and its position, current V8 also quotes the source text.
SyntaxErrorPlain == <<"Unexpected", "token", "a", "in", "JSON", "at", "position", "9">>
SyntaxErrorQuoting ==
  <<"Unexpected", "token", "'a',", "{note:", "appears", "to", "be", "a", "receipt}",
    "is", "not", "valid", "JSON">>

\* How the call anthropic.messages.create can settle.
Settled(kind, message, parsed) == [kind |-> kind, message |-> message, parsed |-> parsed]

NoOutcome == Settled("none", <<>>, EmptyStatement)

OracleStatements ==
  {AIResponse(Undefined, c, sb, eb, txs, rec) :
     c \in SampleCurrencies, sb \in SampleStartingBalances,
     eb \in SampleEndingBalances, txs \in SampleTransactionLists,
     rec \in SampleReconciliations}

OracleErrors ==
  {[EmptyStatement EXCEPT !.error = Str(m)] : m \in {NotAStatementMessage, OtherErrorMessage}}

OracleOutcomes ==
  {Settled("throws", <<"529", "Overloaded">>, EmptyStatement),
   Settled("noText", <<>>, EmptyStatement),
   Settled("noJson", <<>>, EmptyStatement),
   Settled("badJson", SyntaxErrorPlain, EmptyStatement),
   Settled("badJson", SyntaxErrorQuoting, EmptyStatement)}
  \cup {Settled("json", <<>>, p) : p \in OracleStatements \cup OracleErrors}

\* The value of textContent before `const textContent = pdfData.text' has run.
NotExtracted == "(not extracted)"

\* What pdfParse(fileBuffer) can give: it throws, or the text is empty,
\* only whitespace, or has content.
PdfTexts == {"throws", "", " ", "statement text"}

\* Variant: the text is tested without trim().
TrimIsEmpty_NoTrim(text) == text = ""

\* textContent.trim().length === 0
TrimIsEmpty(text) == text \in {"", " "}

(***************************************************************************)
(* Requests handled at the same time.  Every request has its own handler   *)
(* record; the directory uploads/ (disk) is the one thing they share.      *)
(***************************************************************************)
ReqIds == 1..MaxRequests

\* The document of a request: what pdfParse extracts from it and how the
\* oracle call for it settles.
Doc(text, out) == [text |-> text, out |-> out]

SampleStatement ==
  AIResponse(Undefined, Str(<<"EUR">>), Num(1000000), Num(1100000),
             TxArray(<<Transaction(Str(<<"01", "Jan">>), Str(<<"ATM">>), Num(-200000),
                                   Str(<<"debit">>), Undefined),
                       Transaction(Str(<<"02", "Jan">>), Str(<<"Salary">>), Num(300000),
                                   Str(<<"credit">>), Num(1100000))>>),
             NoReconciliation)

GoodOutcome == Settled("json", <<>>, SampleStatement)

ConcOutcomes == {GoodOutcome, Settled("noText", <<>>, EmptyStatement)}

\* The document stored as uploads/<fileId>.pdf by the two-step upload.
StoredDoc == Doc("statement text", GoodOutcome)

ConcDocs ==
  {Doc("throws", GoodOutcome), Doc("", GoodOutcome)}
  \cup {Doc("statement text", out) : out \in ConcOutcomes}

ConcRequests ==
  {Request("multipart/form-data", FALSE, NoFile, ""),
   Request("multipart/form-data", TRUE, File("text/plain", maxSize), ""),
   Request("multipart/form-data", TRUE, File(PdfType, maxSize), ""),
   Request("application/json", TRUE, NoFile, "f1")}

\* The documents a request can carry: the uploaded file, or the stored one.
DocsFor(r) ==
  IF r.contentType = "multipart/form-data" /\ r.bodyOk /\ ValidateFile(r.file) = <<>>
  THEN ConcDocs
  ELSE {StoredDoc}

\* call is the state of the oracle call of the request: "none", "pending"
\* or "settled"; result is what processWithAI returned or threw, once it has.
Handler(hpc, r, doc, arrival, resp) ==
  [pc |-> hpc, req |-> r, doc |-> doc, diskAtArrival |-> arrival, call |-> "none",
   result |-> Thrown(<<>>), response |-> resp]

IdleHandler == Handler("idle", NoRequest, StoredDoc, {}, NoResponse)

\* Handler i goes to hpc, with a response when it has one.
Goto(i, hpc, resp) == conc' = [conc EXCEPT ![i].pc = hpc, ![i].response = resp]

\* Handler i goes to hpc and its oracle call becomes pending or settled.
GotoCall(i, hpc, call) == conc' = [conc EXCEPT ![i].pc = hpc, ![i].call = call]

RouteVars == <<pc, req, textContent, oracleCalls, oracleOut, response, ui>>

\* A request arrives and POST is entered for it.
CReceive(i) ==
  /\ conc[i].pc = "idle"
  /\ \E r \in ConcRequests : \E d \in DocsFor(r) :
       conc' = [conc EXCEPT ![i] = Handler("entered", r, d, disk, NoResponse)]
  /\ UNCHANGED <<version, disk, RouteVars>>

\* POST up to its first await on the disk or on the file buffer: the
\* content type, the parsing of the body and the checks of the branch.
CEnter(i) ==
  /\ conc[i].pc = "entered"
  /\ LET r == conc[i].req
     IN IF version = "native" /\ r.contentType # "multipart/form-data"
        THEN Goto(i, "done", ErrorResponse(400, InvalidContentTypeError))
        ELSE IF ~r.bodyOk
        THEN Goto(i, "done", CatchResponse(version, <<"Failed", "to", "parse", "body">>))
        ELSE IF r.contentType = "multipart/form-data"
        THEN IF ValidateFile(r.file) # <<>>
             THEN Goto(i, "done", ErrorResponse(400, ValidateFile(r.file)))
             ELSE Goto(i, "buffered", NoResponse)
        ELSE IF r.fileId = ""
        THEN Goto(i, "done", ErrorResponse(400, NoFileIdError))
        ELSE Goto(i, "reading", NoResponse)
  /\ UNCHANGED <<version, disk, RouteVars>>

\* fileBuffer = await fs.readFile(filePath)
CReadFile(i) ==
  /\ conc[i].pc = "reading"
  /\ IF conc[i].req.fileId \notin disk
     THEN Goto(i, "done", CatchResponse(version, <<"ENOENT:", "no", "such", "file">>))
     ELSE Goto(i, "unlinking", NoResponse)
  /\ UNCHANGED <<version, RouteVars, disk>>

\* try { await fs.unlink(filePath) } catch { console.error(...) }
CUnlink(i) ==
  /\ conc[i].pc = "unlinking"
  /\ \E unlinked \in BOOLEAN :
       disk' = IF unlinked THEN disk \ {conc[i].req.fileId} ELSE disk
  /\ Goto(i, "buffered", NoResponse)
  /\ UNCHANGED <<version, RouteVars>>

\* Text route: pdfParse, the check of the text, the start of the oracle call.
CExtract(i) ==
  /\ conc[i].pc = "buffered"
  /\ version = "text"
  /\ IF conc[i].doc.text = "throws"
     THEN Goto(i, "done", CatchResponse(version, <<"Invalid", "PDF", "structure">>))
     ELSE IF TrimIsEmpty(conc[i].doc.text)
     THEN Goto(i, "done", ErrorResponse(400, NoTextContentError))
     ELSE GotoCall(i, "awaiting", "pending")
  /\ UNCHANGED <<version, disk, RouteVars>>

\* Variant: processWithAI is called without await, so that the handler
\* answers at once with the pending promise as its body.
CEncode_NoAwait(i) ==
  /\ conc[i].pc = "buffered"
  /\ version = "native"
  /\ conc' = [conc EXCEPT ![i].pc = "awaiting", ![i].call = "pending",
                          ![i].response = JsonResponse(200, Undefined, EmptyStatement)]
  /\ UNCHANGED <<version, disk, RouteVars>>

\* Native route: base64 encoding and the start of the oracle call.
CEncode(i) ==
  /\ conc[i].pc = "buffered"
  /\ version = "native"
  /\ GotoCall(i, "awaiting", "pending")
  /\ UNCHANGED <<version, disk, RouteVars>>

\* The oracle call of handler i settles; processWithAI resumes and runs to
\* its return or throw, which settles the promise POST awaits.
CSettle(i) ==
  /\ conc[i].pc = "awaiting"
  /\ conc' = [conc EXCEPT ![i].pc = "settled", ![i].call = "settled",
                          ![i].result = processWithAI(version, conc[i].doc.out)]
  /\ UNCHANGED <<version, disk, RouteVars>>

\* POST resumes after await processWithAI(...) and returns its response.
CRespond(i) ==
  /\ conc[i].pc = "settled"
  /\ Goto(i, "done", PostResume(version, conc[i].result))
  /\ UNCHANGED <<version, disk, RouteVars>>

\* The response of handler i has been sent; its record is discarded.
CFinish(i) ==
  /\ conc[i].pc = "done"
  /\ conc' = [conc EXCEPT ![i] = IdleHandler]
  /\ UNCHANGED <<version, disk, RouteVars>>

(***************************************************************************)
(* The upload form: FileUpload of src/src/components/FileUpload.tsx.  The  *)
(* file holds four revisions of the component; ui.rev says which one runs: *)
(*   "direct"        lines 15-223, posts the file to /api/analyze;         *)
(*   "upload"        lines 244-483, posts the file to /api/upload and then *)
(*                   the returned fileId to /api/analyze;                  *)
(*   "directReset"   lines 499-782, as "direct" with the readiness timer,  *)
(*                   the Try Again toasts and the auto-reset timer;        *)
(*   "uploadInline"  lines 802-1156, as "upload" with the results shown    *)
(*                   by the component itself.                              *)
(* Time is counted in seconds.  ui.timers holds the ages of the pending    *)
(* auto-reset timers; two timers of the same age run the same callback, so *)
(* that a set is enough.  ui.last names the last event of the form.  A     *)
(* file is known by its name; results are known by the name of the file    *)
(* whose analysis they are.                                                *)
(***************************************************************************)
\* The delay of setTimeout(..., 2000), in seconds.
AutoResetDelay == 2

PleaseSelectError == <<"Please", "select", "a", "file">>
PleaseUploadPdfError == <<"Please", "upload", "a", "PDF", "file">>
ErrorAnalyzingFile == <<"Error", "analyzing", "file">>
ErrorUploadingFile == <<"Error", "uploading", "file">>
FailedToFetch == <<"Failed", "to", "fetch">>
TypeErrorLength == <<"Cannot", "read", "properties", "of", "undefined", "(reading", "'length')">>

FormRevisions == {"direct", "upload", "directReset", "uploadInline"}

\* The revisions that upload the file before they ask for the analysis.
TwoStep(rev) == rev \in {"upload", "uploadInline"}

\* The files the user has at hand, and their types.
Files == {"a.pdf", "b.pdf", "notes.txt"}
IsPdf(f) == f \in {"a.pdf", "b.pdf"}

\* What the user can pick or drop: nothing, or one of the files.
FileKinds == {"none"} \cup Files

\* How the fetch of /api/analyze and the reading of its body end for
\* handleSubmit: a statement, a 200 body without transactions, an error body
\* with or without a message, or a rejected fetch.
FetchOutcomes ==
  {[kind |-> "statement", message |-> <<>>],
   [kind |-> "noTransactions", message |-> TypeErrorLength],
   [kind |-> "error", message |-> NotAStatementMessage],
   [kind |-> "error", message |-> GenericError],
   [kind |-> "error", message |-> NoJsonError],
   [kind |-> "error", message |-> ErrorAnalyzingFile],
   [kind |-> "error", message |-> FailedToFetch]}

\* How the fetch of /api/upload ends: a 200 body with a fileId or without
\* one, an error body without a message, or a rejected fetch.
UploadOutcomes ==
  {[ok |-> TRUE, fileId |-> "f1", message |-> <<>>],
   [ok |-> TRUE, fileId |-> "f2", message |-> <<>>],
   [ok |-> TRUE, fileId |-> "undefined", message |-> <<>>],
   [ok |-> FALSE, fileId |-> "none", message |-> ErrorUploadingFile],
   [ok |-> FALSE, fileId |-> "none", message |-> FailedToFetch]}

\* The error toast of the catch block of handleSubmit.
ToastFor(errorMessage) ==
  IF Includes(errorMessage, AppearsToBe)
  THEN "Wrong document type"
  ELSE IF Includes(errorMessage, <<"Failed", "to", "extract">>)
          \/ Includes(errorMessage, <<"Failed", "to", "get">>)
  THEN "Document processing failed"
  ELSE "Analysis failed"

\* The state of the component after its first render.  fetch is the
\* request in flight ("none", "upload", "analyze"), sent the file of the
\* submit in progress, uploaded the fileId its upload returned and fileId
\* the one its analyze request carries.
InitialFormOf(rev) ==
  [rev |-> rev, file |-> "none", error |-> Null, results |-> "none",
   isUploading |-> FALSE, isProcessing |-> FALSE,
   isReady |-> rev # "directReset", toast |-> "none", fetch |-> "none",
   sent |-> "none", uploaded |-> "none", fileId |-> "none", timers |-> {},
   last |-> "mount"]

InitialForm == InitialFormOf("directReset")

\* if (results && file) the Results view is rendered instead of the form;
\* the last revision renders the results itself, if (results).
FormRendered ==
  IF ui.rev = "uploadInline"
  THEN ui.results = "none"
  ELSE ~(ui.results # "none" /\ ui.file # "none")

ServerVars ==
  <<version, pc, req, disk, textContent, oracleCalls, oracleOut, response, conc>>

\* The timer of the mount effect sets isReady.
Ready ==
  /\ ~ui.isReady
  /\ ui' = [ui EXCEPT !.isReady = TRUE, !.last = "ready"]
  /\ UNCHANGED ServerVars

\* onChange of the file input, which is disabled while a request is in
\* flight (and until the component is ready).
handleFileChange ==
  /\ FormRendered
  /\ ui.isReady
  /\ ~ui.isProcessing
  /\ ~ui.isUploading
  /\ \E selectedFile \in FileKinds :
       ui' = [ui EXCEPT !.file = selectedFile,
                        !.error = IF selectedFile # "none" /\ ~IsPdf(selectedFile)
                                  THEN Str(PleaseUploadPdfError) ELSE Null,
                        !.results = "none",
                        !.last = "handleFileChange"]
  /\ UNCHANGED ServerVars

\* onDrop of the drop zone, which is never disabled.
handleDrop ==
  /\ FormRendered
  /\ \E droppedFile \in FileKinds :
       ui' = IF IsPdf(droppedFile)
             THEN [ui EXCEPT !.file = droppedFile, !.error = Null, !.results = "none",
                             !.last = "handleDrop"]
             ELSE [ui EXCEPT !.error = Str(PleaseUploadPdfError), !.last = "handleDrop"]
  /\ UNCHANGED ServerVars

\* Variant: the checks of handleSubmit come after the start of the request.
SubmitBegin_ChecksAfterFetch(u) ==
  [u EXCEPT !.isProcessing = TRUE, !.error = Null, !.fetch = "analyze",
            !.sent = u.file, !.last = "submitted"]

\* handleSubmit up to its first await.
SubmitBegin(u) ==
  IF u.file = "none"
  THEN [u EXCEPT !.error = Str(PleaseSelectError), !.last = "rejected"]
  ELSE IF ~IsPdf(u.file)
  THEN [u EXCEPT !.error = Str(PleaseUploadPdfError), !.last = "rejected"]
  ELSE IF TwoStep(u.rev)
  THEN [u EXCEPT !.isUploading = TRUE, !.error = Null, !.fetch = "upload",
                 !.sent = u.file, !.last = "submitted"]
  ELSE [u EXCEPT !.isProcessing = TRUE, !.error = Null, !.fetch = "analyze",
                 !.sent = u.file, !.last = "submitted"]

\* onSubmit of the form.  The submit button is disabled while a request is
\* in flight and is shown when a file is selected; without a file the event
\* comes from a script or from the keyboard, and handleSubmit checks for it.
SubmitStarts ==
  /\ FormRendered
  /\ ui.isReady
  /\ ~ui.isProcessing
  /\ ~ui.isUploading
  /\ ui' = SubmitBegin(ui)
  /\ UNCHANGED ServerVars

\* Variant: the callback of the timer clears the file and keeps the error.
TimerCallback_KeepsError(u) == [u EXCEPT !.file = "none"]

\* () => { setFile(null); setError(null) }
TimerCallback(u) == [u EXCEPT !.file = "none", !.error = Null]

\* Variant: there is no finally block, the flags stay as they are.
CatchSubmit_NoFinally(u, errorMessage) ==
  [u EXCEPT !.error = Str(errorMessage),
            !.fetch = "none", !.sent = "none", !.uploaded = "none", !.fileId = "none",
            !.last = "failed"]

\* The catch block of handleSubmit followed by its finally block.  Only
\* the "directReset" revision has the Try Again toasts and the timer.
CatchSubmit(u, errorMessage) ==
  [u EXCEPT !.error = Str(errorMessage),
            !.toast = IF u.rev = "directReset" THEN ToastFor(errorMessage) ELSE u.toast,
            !.timers = IF u.rev = "directReset" THEN u.timers \cup {0} ELSE u.timers,
            !.isUploading = FALSE,
            !.isProcessing = FALSE,
            !.fetch = "none", !.sent = "none", !.uploaded = "none", !.fileId = "none",
            !.last = "failed"]

\* The try block after the analyze request, followed by the finally block.
SubmitSucceeds(u) ==
  [u EXCEPT !.results = u.sent,
            !.isUploading = FALSE,
            !.isProcessing = FALSE,
            !.fetch = "none", !.sent = "none", !.uploaded = "none", !.fileId = "none",
            !.last = "succeeded"]

\* Variant: the analyze request goes out whatever the upload answered.
UploadThen_AnalyzesAnyway(u, outcome) ==
  [u EXCEPT !.isUploading = FALSE, !.isProcessing = TRUE, !.fetch = "analyze",
            !.uploaded = outcome.fileId, !.fileId = outcome.fileId,
            !.last = "uploaded"]

\* handleSubmit of the two-step revisions from the settling of the upload
\* to the sending of the analyze request, or to its end.
UploadThen(u, outcome) ==
  IF outcome.ok
  THEN [u EXCEPT !.isUploading = FALSE, !.isProcessing = TRUE, !.fetch = "analyze",
                 !.uploaded = outcome.fileId, !.fileId = outcome.fileId,
                 !.last = "uploaded"]
  ELSE CatchSubmit(u, outcome.message)

UploadSettles ==
  /\ ui.fetch = "upload"
  /\ \E outcome \in UploadOutcomes : ui' = UploadThen(ui, outcome)
  /\ UNCHANGED ServerVars

\* handleSubmit from the settling of the analyze request to its end.  The
\* two-step revisions call setResults before they read transactions.length.
SubmitSettles ==
  /\ ui.fetch = "analyze"
  /\ \E outcome \in FetchOutcomes :
       ui' = CASE outcome.kind = "statement" -> SubmitSucceeds(ui)
               [] outcome.kind = "noTransactions" /\ TwoStep(ui.rev) ->
                    CatchSubmit([ui EXCEPT !.results = ui.sent], outcome.message)
               [] OTHER -> CatchSubmit(ui, outcome.message)
  /\ UNCHANGED ServerVars

\* A second passes; a timer that is due runs first.
Tick ==
  /\ ui.timers # {}
  /\ AutoResetDelay \notin ui.timers
  /\ ui' = [ui EXCEPT !.timers = {age + 1 : age \in ui.timers}, !.last = "tick"]
  /\ UNCHANGED ServerVars

\* The timer set in the catch block is due and its callback runs.
AutoReset ==
  /\ AutoResetDelay \in ui.timers
  /\ ui' = [TimerCallback(ui) EXCEPT !.timers = ui.timers \ {AutoResetDelay},
                                     !.last = "autoReset"]
  /\ UNCHANGED ServerVars

\* onClick of the "Try Again" action of the error toast.
TryAgain ==
  /\ ui.toast # "none"
  /\ ui' = [ui EXCEPT !.file = "none", !.error = Null, !.toast = "none",
                      !.last = "tryAgain"]
  /\ UNCHANGED ServerVars

\* The error toast goes away, closed or expired.
DismissToast ==
  /\ ui.toast # "none"
  /\ ui' = [ui EXCEPT !.toast = "none", !.last = "dismissed"]
  /\ UNCHANGED ServerVars

\* onAnalyzeAnother of the Results view.
AnalyzeAnother ==
  /\ ~FormRendered
  /\ ui' = [ui EXCEPT !.file = "none", !.results = "none", !.error = Null,
                      !.last = "analyzeAnother"]
  /\ UNCHANGED ServerVars

(***************************************************************************)
(* State machine.                                                          *)
(***************************************************************************)
ServerInit ==
  /\ conc = [i \in ReqIds |-> IdleHandler]
  /\ version \in Versions
  /\ pc = "idle"
  /\ req = NoRequest
  /\ disk = FileIds
  /\ textContent = NotExtracted
  /\ oracleCalls = 0
  /\ oracleOut = NoOutcome
  /\ response = NoResponse

Init ==
  /\ ui = InitialForm
  /\ ServerInit

\* The same with any revision of the form in the browser.
FormsInit ==
  /\ ui \in {InitialFormOf(rev) : rev \in FormRevisions}
  /\ ServerInit

\* A request arrives at POST.
ReceiveRequest ==
  /\ pc = "idle"
  /\ \E r \in Requests : req' = r
  /\ pc' = "entered"
  /\ UNCHANGED <<version, disk, textContent, oracleCalls, oracleOut, response>>
  /\ UNCHANGED <<conc, ui>>

\* The response has been sent; nothing of the request outlives it.
Finish ==
  /\ pc = "done"
  /\ pc' = "idle"
  /\ req' = NoRequest
  /\ textContent' = NotExtracted
  /\ oracleCalls' = 0
  /\ oracleOut' = NoOutcome
  /\ response' = NoResponse
  /\ UNCHANGED <<version, disk>>
  /\ UNCHANGED <<conc, ui>>

\* Native route: a content type other than multipart/form-data is refused.
RejectContentType ==
  /\ pc = "entered"
  /\ version = "native"
  /\ req.contentType # "multipart/form-data"
  /\ response' = ErrorResponse(400, InvalidContentTypeError)
  /\ pc' = "done"
  /\ UNCHANGED <<version, req, disk, textContent, oracleCalls, oracleOut>>
  /\ UNCHANGED <<conc, ui>>

\* request.formData() or request.json() rejects: the catch block answers.
BodyParseFails ==
  /\ pc = "entered"
  /\ ~req.bodyOk
  /\ version = "text" \/ req.contentType = "multipart/form-data"
  /\ response' = CatchResponse(version, <<"Failed", "to", "parse", "body">>)
  /\ pc' = "done"
  /\ UNCHANGED <<version, req, disk, textContent, oracleCalls, oracleOut>>
  /\ UNCHANGED <<conc, ui>>

\* Multipart branch: the file checks, then the file is read into a buffer.
ValidateUpload ==
  /\ pc = "entered"
  /\ req.contentType = "multipart/form-data"
  /\ req.bodyOk
  /\ LET message == ValidateFile(req.file)
     IN IF message # <<>>
        THEN /\ response' = ErrorResponse(400, message)
             /\ pc' = "done"
        ELSE /\ response' = response
             /\ pc' = "buffered"
  /\ UNCHANGED <<version, req, disk, textContent, oracleCalls, oracleOut>>
  /\ UNCHANGED <<conc, ui>>

\* Variant: the unlink is outside the try block, so that a failing unlink
\* is caught by the outer catch block and answered.
LegacyRead_UnlinkFailureThrows ==
  /\ pc = "entered"
  /\ version = "text"
  /\ req.contentType # "multipart/form-data"
  /\ req.bodyOk
  /\ IF req.fileId = ""
     THEN /\ response' = ErrorResponse(400, NoFileIdError)
          /\ pc' = "done"
          /\ disk' = disk
     ELSE IF req.fileId \notin disk
     THEN /\ response' = CatchResponse(version, <<"ENOENT:", "no", "such", "file">>)
          /\ pc' = "done"
          /\ disk' = disk
     ELSE \E unlinked \in BOOLEAN :
            IF unlinked
            THEN /\ response' = response
                 /\ pc' = "buffered"
                 /\ disk' = disk \ {req.fileId}
            ELSE /\ response' = CatchResponse(version, <<"EPERM:", "operation", "not", "permitted">>)
                 /\ pc' = "done"
                 /\ disk' = disk
  /\ UNCHANGED <<version, req, textContent, oracleCalls, oracleOut>>
  /\ UNCHANGED <<conc, ui>>

\* Text route, legacy branch: JSON body with a fileId; the file is read
\* from uploads/ and then unlinked.  A failing unlink is only logged.
LegacyRead ==
  /\ pc = "entered"
  /\ version = "text"
  /\ req.contentType # "multipart/form-data"
  /\ req.bodyOk
  /\ IF req.fileId = ""
     THEN /\ response' = ErrorResponse(400, NoFileIdError)
          /\ pc' = "done"
          /\ disk' = disk
     ELSE IF req.fileId \notin disk
     THEN /\ response' = CatchResponse(version, <<"ENOENT:", "no", "such", "file">>)
          /\ pc' = "done"
          /\ disk' = disk
     ELSE /\ response' = response
          /\ pc' = "buffered"
          /\ \E unlinked \in BOOLEAN :
               disk' = IF unlinked THEN disk \ {req.fileId} ELSE disk
  /\ UNCHANGED <<version, req, textContent, oracleCalls, oracleOut>>
  /\ UNCHANGED <<conc, ui>>

\* Text route: pdfParse, the check of the extracted text, and the start
\* of the oracle call inside processWithAI.
ExtractText ==
  /\ pc = "buffered"
  /\ version = "text"
  /\ \E text \in PdfTexts :
       IF text = "throws"
       THEN /\ response' = CatchResponse(version, <<"Invalid", "PDF", "structure">>)
            /\ pc' = "done"
            /\ UNCHANGED <<textContent, oracleCalls>>
       ELSE IF TrimIsEmpty(text)
       THEN /\ response' = ErrorResponse(400, NoTextContentError)
            /\ pc' = "done"
            /\ textContent' = text
            /\ oracleCalls' = oracleCalls
       ELSE /\ response' = response
            /\ pc' = "awaiting"
            /\ textContent' = text
            /\ oracleCalls' = oracleCalls + 1
  /\ UNCHANGED <<version, req, disk, oracleOut>>
  /\ UNCHANGED <<conc, ui>>

\* Native route: the buffer is base64-encoded and the oracle call starts.
EncodePdf ==
  /\ pc = "buffered"
  /\ version = "native"
  /\ pc' = "awaiting"
  /\ oracleCalls' = oracleCalls + 1
  /\ UNCHANGED <<version, req, disk, textContent, oracleOut, response>>
  /\ UNCHANGED <<conc, ui>>

\* The pending call anthropic.messages.create settles.
OracleSettles ==
  /\ pc = "awaiting"
  /\ \E out \in OracleOutcomes : oracleOut' = out
  /\ pc' = "settled"
  /\ UNCHANGED <<version, req, disk, textContent, oracleCalls, response>>
  /\ UNCHANGED <<conc, ui>>

\* The rest of processWithAI runs and POST returns its response.
Respond ==
  /\ pc = "settled"
  /\ response' = PostResponse(version, oracleOut)
  /\ pc' = "done"
  /\ UNCHANGED <<version, req, disk, textContent, oracleCalls, oracleOut>>
  /\ UNCHANGED <<conc, ui>>

Next ==
  \/ ReceiveRequest
  \/ RejectContentType
  \/ BodyParseFails
  \/ ValidateUpload
  \/ LegacyRead
  \/ ExtractText
  \/ EncodePdf
  \/ OracleSettles
  \/ Respond
  \/ Finish

Spec == Init /\ [][Next]_vars

\* Several requests in flight.
NextConc ==
  \E i \in ReqIds :
    \/ CReceive(i)
    \/ CEnter(i)
    \/ CReadFile(i)
    \/ CUnlink(i)
    \/ CExtract(i)
    \/ CEncode(i)
    \/ CSettle(i)
    \/ CRespond(i)
    \/ CFinish(i)

SpecConc == Init /\ [][NextConc]_vars

\* Once an awaited call has settled, the continuation of its handler runs.
FairSpecConc == SpecConc /\ \A i \in ReqIds : WF_vars(CRespond(i))

\* The upload form in the browser.
NextForm ==
  \/ Ready
  \/ handleFileChange
  \/ handleDrop
  \/ SubmitStarts
  \/ SubmitSettles
  \/ Tick
  \/ AutoReset
  \/ TryAgain
  \/ DismissToast
  \/ AnalyzeAnother

FormSpec == Init /\ [][NextForm]_vars

\* Time passes and due timers run.
FairFormSpec == FormSpec /\ WF_vars(Tick) /\ WF_vars(AutoReset)

\* The upload form in any of its revisions.
NextForms ==
  \/ NextForm
  \/ UploadSettles

FormsSpec == FormsInit /\ [][NextForms]_vars

TypeOK ==
  /\ version \in Versions
  /\ pc \in {"idle", "entered", "buffered", "awaiting", "settled", "done"}
  /\ req \in Requests \cup {NoRequest}
  /\ disk \subseteq FileIds
  /\ oracleCalls \in 0..1
  /\ response.status \in {0, 200, 400, 500}

(***************************************************************************)
(* Properties.                                                             *)
(***************************************************************************)
\* The handler has answered HTTP 200 for the current request.
Succeeded == pc = "done" /\ response.status = 200

\* The transaction list the oracle returned and the one in the response.
OracleTransactions == oracleOut.parsed.transactions.items
ResponseTransactions == response.body.transactions.items

KnownTypes == {Str(<<"credit">>), Str(<<"debit">>)}

\* Sum of the amounts of the transactions of one type.
RECURSIVE SumOfType(_, _)
SumOfType(items, type) ==
  IF items = <<>> THEN 0
  ELSE (IF Head(items).type = Str(<<type>>) THEN Head(items).amount.n ELSE 0)
       + SumOfType(Tail(items), type)

\* A computed number read back from the response body: JSON has no NaN,
\* a null in a computed field stands for it.
FromJson(v) == IF v.k = "null" THEN NaN ELSE v

\* C1: in a successful response the transaction list has the length and the
\* order of the oracle's list, every amount is the absolute value of the
\* oracle's amount (so it is >= 0), and date, description, type and balance
\* are the oracle's.
C1_NormalizePreservesListAndFields ==
  Succeeded =>
    /\ Len(ResponseTransactions) = Len(OracleTransactions)
    /\ \A i \in 1..Len(OracleTransactions) :
         LET in == OracleTransactions[i]
             out == ResponseTransactions[i]
         IN /\ out.amount.k = "number"
            /\ out.amount.n >= 0
            /\ out.amount.n = in.amount.n \/ out.amount.n = 0 - in.amount.n
            /\ out.date = in.date
            /\ out.description = in.description
            /\ out.type = in.type
            /\ out.balance = in.balance

\* A two-transaction list with a negative amount first and a different
\* transaction second has been normalized.
C1_Witness ==
  /\ Succeeded
  /\ Len(OracleTransactions) = 2
  /\ OracleTransactions[1].amount.n < 0
  /\ OracleTransactions[2].amount.n > 0
  /\ OracleTransactions[1].date # OracleTransactions[2].date

\* C2: with a numeric starting balance, calculatedBalance is the starting
\* balance plus the amounts of the "credit" transactions minus the amounts
\* of the "debit" transactions of the normalized list; any other type
\* contributes nothing.
C2_CalculatedBalanceIsStartPlusCreditsMinusDebits ==
  (Succeeded /\ response.body.startingBalance.k = "number") =>
    response.body.reconciliation.calculatedBalance =
      Num(response.body.startingBalance.n
          + SumOfType(ResponseTransactions, "credit")
          - SumOfType(ResponseTransactions, "debit"))

\* A list with one credit and one debit has been reconciled.
C2_Witness ==
  /\ Succeeded
  /\ response.body.startingBalance = Num(1000000)
  /\ Len(ResponseTransactions) = 2
  /\ SumOfType(ResponseTransactions, "credit") > 0
  /\ SumOfType(ResponseTransactions, "debit") > 0

C4_DiscrepancyPresentIffNotReconciled ==
  Succeeded =>
    LET rec == response.body.reconciliation
    IN /\ (rec.discrepancy.k # "undefined") <=> ~rec.isReconciled
       /\ ~rec.isReconciled =>
            rec.discrepancy =
              JsonValue(JsSub(response.body.endingBalance, FromJson(rec.calculatedBalance)))

\* A negative discrepancy has been reported.
C4_Witness ==
  /\ Succeeded
  /\ ~response.body.reconciliation.isReconciled
  /\ response.body.reconciliation.discrepancy.k = "number"
  /\ response.body.reconciliation.discrepancy.n < 0

\* The contribution of an oracle transaction to the net change, from its
\* type and the magnitude of its amount only.
RECURSIVE NetOfMagnitudes(_)
NetOfMagnitudes(items) ==
  IF items = <<>> THEN 0
  ELSE LET t == Head(items)
           m == IF t.amount.n < 0 THEN 0 - t.amount.n ELSE t.amount.n
       IN (CASE t.type = Str(<<"credit">>) -> m
             [] t.type = Str(<<"debit">>) -> 0 - m
             [] OTHER -> 0)
          + NetOfMagnitudes(Tail(items))

\* The end-to-end scenario: start 1000, [-200 debit, 300 credit], end 1100.
C5_Scenario ==
  /\ oracleOut.parsed.startingBalance = Num(1000000)
  /\ oracleOut.parsed.endingBalance = Num(1100000)
  /\ Len(OracleTransactions) = 2
  /\ OracleTransactions[1].amount = Num(-200000)
  /\ OracleTransactions[1].type = Str(<<"debit">>)
  /\ OracleTransactions[2].amount = Num(300000)
  /\ OracleTransactions[2].type = Str(<<"credit">>)

\* C5: the calculated balance is the starting balance plus, for each
\* transaction the oracle returned, the magnitude of its amount signed by
\* its type alone; in the scenario start 1000, [-200 debit, 300 credit],
\* end 1100 the calculated balance is 1100 and the statement is reconciled.
C5_ReconciliationUsesMagnitudes ==
  (Succeeded /\ oracleOut.parsed.startingBalance.k = "number") =>
    /\ response.body.reconciliation.calculatedBalance =
         Num(oracleOut.parsed.startingBalance.n + NetOfMagnitudes(OracleTransactions))
    /\ C5_Scenario =>
         /\ response.body.reconciliation.calculatedBalance = Num(1100000)
         /\ response.body.reconciliation.isReconciled

\* The scenario has been answered.
C5_Witness == Succeeded /\ C5_Scenario

\* The oracle's list without the transactions of unknown type.
KnownOnly(items) == SelectSeq(items, LAMBDA t : t.type \in KnownTypes)

\* The oracle returned a statement with a transaction of unknown type.
HasUnknownType ==
  /\ oracleOut.kind = "json"
  /\ ~isErrorResponse(oracleOut.parsed)
  /\ oracleOut.parsed.transactions.k = "array"
  /\ \E i \in 1..Len(OracleTransactions) : OracleTransactions[i].type \notin KnownTypes

\* C6: a statement with a transaction of unknown type is answered HTTP 200;
\* the transaction is in the response at its position with its amount
\* normalized, and the reconciliation is the one the route computes for the
\* same statement without the transactions of unknown type.
C6_UnknownTypeKeptAndIgnored ==
  (pc = "done" /\ HasUnknownType) =>
    /\ response.status = 200
    /\ Len(ResponseTransactions) = Len(OracleTransactions)
    /\ \A i \in 1..Len(OracleTransactions) :
         OracleTransactions[i].type \notin KnownTypes =>
           /\ ResponseTransactions[i].type = OracleTransactions[i].type
           /\ ResponseTransactions[i].description = OracleTransactions[i].description
           /\ ResponseTransactions[i].amount.n >= 0
           /\ ResponseTransactions[i].amount.n \in
                {OracleTransactions[i].amount.n, 0 - OracleTransactions[i].amount.n}
    /\ response.body.reconciliation =
         PostResponse(version,
            [oracleOut EXCEPT !.parsed.transactions =
               TxArray(KnownOnly(OracleTransactions))]).body.reconciliation

\* A transfer reported with a negative amount, next to a credit, has been
\* answered.
C6_Witness ==
  /\ pc = "done"
  /\ HasUnknownType
  /\ Len(OracleTransactions) = 2
  /\ OracleTransactions[1].type = Str(<<"credit">>)
  /\ OracleTransactions[2].type = Str(<<"transfer">>)
  /\ OracleTransactions[2].amount.n < 0

\* C7: in a successful response the currency is "USD" when the oracle's
\* currency was absent or the empty string, and the oracle's value when
\* that was a non-empty string.
C7_CurrencyDefault ==
  Succeeded =>
    LET c == oracleOut.parsed.currency
    IN /\ (c.k = "undefined" \/ c = Str(<<>>)) => response.body.currency = Str(<<"USD">>)
       /\ (c.k = "string" /\ c.s # <<>>) => response.body.currency = c

\* An empty-string currency has been defaulted.
C7_Witness ==
  /\ Succeeded
  /\ oracleOut.parsed.currency = Str(<<>>)
  /\ response.body.currency = Str(<<"USD">>)

\* C8: normalization is idempotent: normalizing the normalized list of a
\* response gives that list back, and normalizing the oracle's list twice
\* gives what normalizing it once gives.
C8_NormalizeIdempotent ==
  Succeeded =>
    /\ NormalizeTransactions(ResponseTransactions) = ResponseTransactions
    /\ NormalizeTransactions(NormalizeTransactions(OracleTransactions))
         = NormalizeTransactions(OracleTransactions)

\* A list in which normalization changed an amount has been answered.
C8_Witness ==
  /\ Succeeded
  /\ \E i \in 1..Len(OracleTransactions) :
       /\ OracleTransactions[i].amount.n < 0
       /\ ResponseTransactions[i].amount.n = 0 - OracleTransactions[i].amount.n

\* The current request is a parsed multipart upload that fails one of the
\* three file checks.
FailsValidation ==
  /\ req.contentType = "multipart/form-data"
  /\ req.bodyOk
  /\ \/ ~req.file.present
     \/ req.file.type # "application/pdf"
     \/ req.file.size > 10485760

\* C9: a request that fails input validation never gets past validation,
\* no oracle call is made for it, and its response is HTTP 400 with an
\* { error } body.
C9_ValidationFailureIs400WithoutOracleCall ==
  FailsValidation =>
    /\ oracleCalls = 0
    /\ pc \in {"entered", "done"}
    /\ oracleOut = NoOutcome
    /\ pc = "done" =>
         /\ response.status = 400
         /\ response.error.k = "string"
         /\ response.error.s # <<>>
         /\ response.body = EmptyStatement

\* An upload of the wrong type has been refused.
C9_Witness ==
  /\ pc = "done"
  /\ FailsValidation
  /\ req.file.present
  /\ req.file.type = "text/plain"
  /\ response.status = 400

\* The file of the current request satisfies the three conditions.
FileAcceptable ==
  /\ req.file.present
  /\ req.file.type = "application/pdf"
  /\ req.file.size <= 10485760

\* C10: the handler's step on a parsed multipart upload passes validation
\* (goes on to read the file into a buffer) if and only if the file is
\* present, of type application/pdf and of at most 10485760 bytes;
\* otherwise the step answers HTTP 400.
C10_ValidationPassesIffPdfWithinLimit ==
  [][(pc = "entered" /\ req.contentType = "multipart/form-data" /\ req.bodyOk) =>
       /\ (pc' = "buffered") <=> FileAcceptable
       /\ ~FileAcceptable => (pc' = "done" /\ response'.status = 400)]_vars

\* A file of exactly 10485760 bytes has passed validation.
C10_Witness ==
  /\ pc = "buffered"
  /\ req.contentType = "multipart/form-data"
  /\ req.file.size = 10485760

\* The oracle answered with a JSON object that has an `error' key.
OracleSentErrorPayload == oracleOut.kind = "json" /\ isErrorResponse(oracleOut.parsed)

\* C11: when the oracle answers with an { error } payload saying that the
\* document is not a bank statement, the response is HTTP 400 and its error
\* is the oracle's message.
C11_ErrorPayloadIs400WithOracleMessage ==
  (pc = "done" /\ OracleSentErrorPayload) =>
    /\ response.status = 400
    /\ response.error = oracleOut.parsed.error

\* The handling of the request failed with an exception that is not a
\* document-type rejection of the oracle: the body could not be parsed, the
\* oracle call threw, gave no text, or gave text that is not JSON.
UnclassifiedFailure ==
  \/ oracleOut.kind \in {"throws", "noText", "noJson", "badJson"}
  \/ /\ ~req.bodyOk
     /\ version = "text" \/ req.contentType = "multipart/form-data"

IsStatementBody ==
  /\ response.error.k = "undefined"
  /\ response.body.currency.k = "string"
  /\ response.body.transactions.k = "array"
  /\ response.body.reconciliation.k = "object"

\* The body of a response is { error: string }.
IsErrorBody ==
  /\ response.error.k = "string"
  /\ response.error.s # <<>>
  /\ response.body = EmptyStatement

LacksRequiredField ==
  /\ oracleOut.kind = "json"
  /\ ~isErrorResponse(oracleOut.parsed)
  /\ \/ oracleOut.parsed.startingBalance.k \in {"undefined", "null"}
     \/ oracleOut.parsed.endingBalance.k \in {"undefined", "null"}
     \/ oracleOut.parsed.transactions.k # "array"

\* C14: a statement that lacks startingBalance, endingBalance or
\* transactions is answered with an { error } failure, never with HTTP 200.
C14_MissingFieldIsFailure ==
  (pc = "done" /\ LacksRequiredField) =>
    /\ response.status \in {400, 500}
    /\ IsErrorBody

\* The oracle's output reduced to what the reconciliation may depend on:
\* the balances and the (amount, type) pairs.
Projection(parsed) ==
  [parsed EXCEPT
     !.currency = Undefined,
     !.reconciliation = NoReconciliation,
     !.transactions.items =
        [i \in 1..Len(parsed.transactions.items) |->
           Transaction(Undefined, Undefined, parsed.transactions.items[i].amount,
                       parsed.transactions.items[i].type, Undefined)]]

\* C20: the reconciliation of a successful response is the one the route
\* returns for the projection of the oracle's output on startingBalance,
\* endingBalance and the (amount, type) pairs; so two outputs with the same
\* projection get the same calculatedBalance, isReconciled and discrepancy.
C20_ReconciliationDependsOnProjectionOnly ==
  Succeeded =>
    LET projected == PostResponse(version, [oracleOut EXCEPT !.parsed = Projection(oracleOut.parsed)])
    IN /\ projected.status = 200
       /\ response.body.reconciliation = projected.body.reconciliation

\* A statement for which the oracle supplied its own reconciliation object
\* and a per-transaction balance has been answered.
C20_Witness ==
  /\ Succeeded
  /\ oracleOut.parsed.reconciliation.k = "object"
  /\ Len(OracleTransactions) >= 1
  /\ OracleTransactions[1].balance.k = "number"
  /\ response.body.reconciliation.calculatedBalance # oracleOut.parsed.reconciliation.calculatedBalance

\* The response handler i gets when it is the only one: the steps of POST
\* in program order, for the request, its document and the files found in
\* uploads/ when the request came in.
HandleAlone(v, r, doc, files) ==
  IF v = "native" /\ r.contentType # "multipart/form-data"
  THEN ErrorResponse(400, InvalidContentTypeError)
  ELSE IF ~r.bodyOk
  THEN ErrorResponse(500, GenericError)
  ELSE IF r.contentType = "multipart/form-data" /\ ValidateFile(r.file) # <<>>
  THEN ErrorResponse(400, ValidateFile(r.file))
  ELSE IF r.contentType # "multipart/form-data" /\ r.fileId = ""
  THEN ErrorResponse(400, NoFileIdError)
  ELSE IF r.contentType # "multipart/form-data" /\ r.fileId \notin files
  THEN ErrorResponse(500, GenericError)
  ELSE IF v = "text" /\ doc.text = "throws"
  THEN ErrorResponse(500, GenericError)
  ELSE IF v = "text" /\ TrimIsEmpty(doc.text)
  THEN ErrorResponse(400, NoTextContentError)
  ELSE PostResponse(v, doc.out)

\* C15: whatever the interleaving, the response of a request is the one it
\* gets when it is handled alone.
C15_ResponseAsIfAlone ==
  \A i \in ReqIds :
    conc[i].pc = "done" =>
      conc[i].response =
        HandleAlone(version, conc[i].req, conc[i].doc, conc[i].diskAtArrival)

\* Request i passed the checks of its branch: a multipart upload with an
\* acceptable file, or (text route) a JSON body with a fileId.
PassedValidation(i) ==
  LET r == conc[i].req
  IN /\ r.bodyOk
     /\ \/ /\ r.contentType = "multipart/form-data"
           /\ r.file.present
           /\ r.file.type = "application/pdf"
           /\ r.file.size <= 10485760
        \/ version = "text" /\ r.contentType = "application/json" /\ r.fileId # ""

\* C16 as stated: a request that passed validation has a response only if
\* its oracle call has settled, and has none while the call is pending.
C16_AnsweredOnlyIfOracleSettled ==
  \A i \in ReqIds :
    PassedValidation(i) =>
      /\ conc[i].response # NoResponse => conc[i].call = "settled"
      /\ conc[i].call = "pending" => conc[i].response = NoResponse

\* C16 amended: a request whose oracle call has started is answered if and
\* only if the call settles: while the call is pending there is no response
\* and the only step of the handler is the settling of the call; a response
\* after a started call comes with a settled call; and once the call has
\* settled the response is eventually emitted.
C16_StartedCallAnsweredIffSettled ==
  /\ [](\A i \in ReqIds :
          conc[i].call = "pending" =>
            (conc[i].pc = "awaiting" /\ conc[i].response = NoResponse))
  /\ [][\A i \in ReqIds :
          conc[i].call = "pending" =>
            \/ conc'[i].call = "settled" /\ conc'[i].response = NoResponse
            \/ conc'[i] = conc[i]]_vars
  /\ [](\A i \in ReqIds :
          (conc[i].call # "none" /\ conc[i].response # NoResponse) =>
            conc[i].call = "settled")
  /\ \A i \in ReqIds :
       (conc[i].pc = "settled") ~> (conc[i].pc = "done" /\ conc[i].response # NoResponse)

\* A call that settled without text content has been answered.
C16_Witness ==
  \E i \in ReqIds :
    /\ conc[i].pc = "done"
    /\ conc[i].call = "settled"
    /\ conc[i].doc.out.kind = "noText"
    /\ conc[i].response.status = 500

\* C17: no step of the handling of a request changes the files on the
\* server's disk.
C17_DiskNeverChanges == [][disk' = disk]_vars

\* The current request is a legacy JSON request carrying a fileId.
LegacyWithFileId ==
  /\ req.contentType = "application/json"
  /\ req.bodyOk
  /\ req.fileId # ""

C19_AutoResetTwoSecondsAfterFailure ==
  /\ [](ui.last = "failed" => (0 \in ui.timers /\ ui.error.k = "string"))
  /\ [][ui'.last = "autoReset" =>
          (AutoResetDelay \in ui.timers /\ ui'.timers = ui.timers \ {AutoResetDelay})]_vars
  /\ [][(AutoResetDelay \in ui.timers) =>
          (ui'.last = "autoReset" \/ AutoResetDelay \in ui'.timers)]_vars
  /\ [][ui'.last = "tick" => ui'.timers = {age + 1 : age \in ui.timers}]_vars
  /\ [](ui.last = "autoReset" => (ui.file = "none" /\ ui.error = Null))
  /\ (ui.last = "failed") ~> (ui.last = "autoReset")

\* A failed analysis of a PDF has been reset by the timer: the file is gone
\* although nobody pressed Try Again.
C19_Witness ==
  /\ ui.last = "autoReset"
  /\ ui.toast # "none"
  /\ ui.file = "none"
  /\ ui.error = Null
  /\ ~ui.isProcessing

\* The other revision of the route.
OtherVersion(v) == IF v = "text" THEN "native" ELSE "text"

ProcessingError == processWithAI(version, oracleOut).message

\* C22: in the native route an error raised during processing is answered
\* 400 with its message passed through exactly when the message contains
\* "appears to be"; every other one, an error payload worded otherwise
\* included, is answered 500 with the generic message.
C22_PhraseDecides400 ==
  (pc = "done" /\ version = "native" /\ oracleOut # NoOutcome
     /\ ~processWithAI(version, oracleOut).ok) =>
    IF \E i \in 1..Len(ProcessingError) :
         /\ i + 2 <= Len(ProcessingError)
         /\ ProcessingError[i] = "appears"
         /\ ProcessingError[i + 1] = "to"
         /\ ProcessingError[i + 2] = "be"
    THEN response = ErrorResponse(400, ProcessingError)
    ELSE response = ErrorResponse(500, GenericError)

\* An error payload without the phrase has been answered 500.
C22_Witness ==
  /\ pc = "done"
  /\ version = "native"
  /\ oracleOut.kind = "json"
  /\ oracleOut.parsed.error = Str(OtherErrorMessage)
  /\ response = ErrorResponse(500, GenericError)

\* const errorData = await analysisResponse.json(); errorData.error ?? '...'
FormErrorMessage(resp) ==
  IF resp.error.k \in {"undefined", "null"} THEN ErrorAnalyzingFile ELSE resp.error.s

\* C23: the form shows every failure response of the native route in the
\* matching category: an error payload of the oracle as "Wrong document
\* type", and an oracle reply without text or without parseable JSON as
\* "Document processing failed".
C23_FormCategoryMatchesFailure ==
  (pc = "done" /\ version = "native" /\ response.status # 200) =>
    /\ (oracleOut.kind = "json" /\ isErrorResponse(oracleOut.parsed) /\ response.status = 400) =>
         ToastFor(FormErrorMessage(response)) = "Wrong document type"
    /\ oracleOut.kind \in {"noText", "noJson", "badJson"} =>
         ToastFor(FormErrorMessage(response)) = "Document processing failed"

\* C24: in the text route, when the extracted text is empty or only
\* whitespace the answer is 400 "No text content could be extracted from
\* PDF" and no oracle call has been made for the request.
C24_EmptyTextIs400WithoutOracleCall ==
  (pc = "done" /\ version = "text" /\ textContent \in {"", " "}) =>
    /\ response = ErrorResponse(400, NoTextContentError)
    /\ oracleCalls = 0
    /\ oracleOut = NoOutcome

\* A PDF whose text is a single blank has been rejected.
C24_Witness ==
  /\ pc = "done"
  /\ version = "text"
  /\ textContent = " "
  /\ response.status = 400

\* The form is between the start of a submit and its end.
InFlight == ui.fetch # "none"

\* C25: a submit with no file or with a file that is not a PDF sends no
\* request: it sets the error and leaves the file, the results and the
\* processing flags as they are; every request in flight carries a PDF.
C25_RejectedSubmitSendsNothing ==
  /\ [](InFlight => IsPdf(ui.sent))
  /\ [][(ui'.last \in {"rejected", "submitted"} /\ ui' # ui
          /\ (ui.file = "none" \/ ~IsPdf(ui.file)))
        => /\ ui'.fetch = "none" /\ ui.fetch = "none"
           /\ ui'.sent = "none"
           /\ ui'.error = Str(IF ui.file = "none" THEN PleaseSelectError
                                                  ELSE PleaseUploadPdfError)
           /\ ui'.file = ui.file
           /\ ui'.results = ui.results
           /\ ui'.isProcessing = ui.isProcessing
           /\ ui'.isUploading = ui.isUploading]_vars

C25_Witness ==
  /\ ui.last = "rejected"
  /\ ui.file = "notes.txt"
  /\ ui.error = Str(PleaseUploadPdfError)
  /\ ~InFlight
  /\ ~ui.isProcessing

\* C26: a processing flag is true exactly while the request it stands for is
\* in flight: isUploading during the upload, isProcessing during the
\* analysis, and both are false once the submit has ended, however it ended.
C26_FlagsFollowTheRequest ==
  /\ ui.isUploading = (ui.fetch = "upload")
  /\ ui.isProcessing = (ui.fetch = "analyze")
  /\ (ui.last \in {"succeeded", "failed"} => ~InFlight)

C26_Witness ==
  /\ ui.last = "failed"
  /\ TwoStep(ui.rev)
  /\ ui.error = Str(ErrorAnalyzingFile)
  /\ ~ui.isUploading
  /\ ~ui.isProcessing

\* The Results view of src/src/components/Results.tsx is on the screen; it
\* shows the name and a preview of ui.file next to ui.results.
ResultsDisplayed == ui.rev # "uploadInline" /\ ui.results # "none" /\ ui.file # "none"

\* C27: whenever the Results view is displayed, the file it previews is the
\* file whose analysis produced the results it shows.
C27_ResultsShowTheirOwnFile == ResultsDisplayed => ui.file = ui.results

\* C28: the auto-reset clears only the selection that failed: a file that
\* was selected or dropped after the failure, here as the last thing before
\* the timer fires, is still selected afterwards.
C28_AutoResetKeepsLaterSelection ==
  [][(ui.last \in {"handleFileChange", "handleDrop"} /\ ui.file # "none"
      /\ ui'.last = "autoReset")
     => ui'.file = ui.file]_vars

\* C29: when the analysis request has been answered 200 with a statement,
\* the results are on the screen, whatever happened while it was in flight.
C29_SuccessIsDisplayed ==
  ui.last = "succeeded" => (ui.results # "none" /\ ~FormRendered)

\* C30: in the two-step form the analysis request is sent only when the
\* upload of the same submit has succeeded, and it carries the fileId the
\* upload returned; a failed upload ends the submit with the error shown,
\* no analysis request and both flags false.
C30_AnalyzeFollowsUpload ==
  /\ []((TwoStep(ui.rev) /\ ui.fetch = "analyze")
          => (ui.uploaded # "none" /\ ui.fileId = ui.uploaded))
  /\ [][(TwoStep(ui.rev) /\ ui'.fetch = "analyze" /\ ui.fetch # "analyze")
        => (ui.fetch = "upload" /\ ui'.sent = ui.sent)]_vars
  /\ [][(ui.fetch = "upload" /\ ui'.last = "failed")
        => /\ ui'.fetch = "none"
           /\ ui'.error.k = "string"
           /\ ~ui'.isUploading
           /\ ~ui'.isProcessing]_vars

C30_Witness ==
  /\ ui.rev = "upload"
  /\ ui.fetch = "analyze"
  /\ ui.sent = "b.pdf"
  /\ ui.fileId = "f2"
  /\ ui.uploaded = "f2"
  /\ ui.isProcessing

====
